---- MODULE Spec2Model ----
(***************************************************************************)
(* Model of norse/torch/module/lif.py: the LIF cells (LIFCell,             *)
(* LIFFeedForwardCell) and the layers that fold them over a time axis      *)
(* (LIFLayer, LIFFeedForwardLayer).                                        *)
(*                                                                         *)
(* Numbers.  Tensor elements are fixed-point integers: voltages, currents  *)
(* and weights count quarter units, dt counts milliseconds and the inverse *)
(* time constants count 1/s, so that dt * tau_inv * x is                   *)
(* (dt * tau_inv * x) / 1000, rounded toward zero the way a float product  *)
(* is rounded to the grid.                                                 *)
(*                                                                         *)
(* Tensors.  A tensor is [shape, d]: shape is <<>> for a 0-dim tensor and  *)
(* <<rows, cols>> for a (batch, neuron) matrix; d maps index pairs to the  *)
(* elements.  Elementwise operations broadcast as torch does.              *)
(*                                                                         *)
(* Objects.  State aggregates live in a heap and are passed by reference,  *)
(* as Python passes them; 0 is None.                                       *)
(***************************************************************************)
EXTENDS Integers, Sequences, FiniteSets, TLC

\* Longest input sequence a caller passes to a layer.
MaxT == 3
\* Largest batch size, input_size and hidden_size.
MaxDim == 2

None == 0

Max(a, b) == IF a >= b THEN a ELSE b

----------------------------------------------------------------------------
\* Tensors

Rank0 == <<>>

NRows(shape) == IF shape = Rank0 THEN 1 ELSE shape[1]
NCols(shape) == IF shape = Rank0 THEN 1 ELSE shape[2]
Numel(shape) == NRows(shape) * NCols(shape)

\* The row-major offset of position <<r, c>> of a shape.
Offset(shape, r, c) == (r - 1) * NCols(shape) + c

RECURSIVE Tabulate(_, _, _)
\* The first k elements, in row-major order, of the tensor of the given
\* shape whose element at <<r, c>> is F(r, c).
Tabulate(F(_, _), shape, k) ==
    IF k = 0 THEN <<>>
    ELSE Append(Tabulate(F, shape, k - 1),
                F(((k - 1) \div NCols(shape)) + 1, ((k - 1) % NCols(shape)) + 1))

Tensor(F(_, _), shape) == [shape |-> shape, d |-> Tabulate(F, shape, Numel(shape))]

Full(shape, x) == LET F(r, c) == x IN Tensor(F, shape)

\* A 0-dim tensor.
Scalar(x) == Full(Rank0, x)

\* torch.zeros(rows, cols)
zeros(rows, cols) == Full(<<rows, cols>>, 0)

Rows(a) == NRows(a.shape)
Cols(a) == NCols(a.shape)

\* Element <<r, c>> of a.
Elem(a, r, c) == a.d[Offset(a.shape, r, c)]

\* The element of a that position <<r, c>> of a broadcast result reads.
At(a, r, c) ==
    Elem(a, IF Rows(a) = 1 THEN 1 ELSE r, IF Cols(a) = 1 THEN 1 ELSE c)

\* torch's broadcasting rule: a 0-dim tensor fits anything; otherwise every
\* dimension pair is equal or holds a 1.
Broadcastable(s1, s2) ==
    \/ s1 = Rank0
    \/ s2 = Rank0
    \/ \A k \in 1..2 : s1[k] = s2[k] \/ s1[k] = 1 \/ s2[k] = 1

BroadcastShape(s1, s2) ==
    IF s1 = Rank0 THEN s2
    ELSE IF s2 = Rank0 THEN s1
    ELSE <<Max(s1[1], s2[1]), Max(s1[2], s2[2])>>

\* dt * rate * x on the fixed-point grid (dt in ms, rate in 1/s).
Trunc(n, den) == IF n >= 0 THEN n \div den ELSE -((-n) \div den)
Rate(dt_, rate, x) == Trunc(dt_ * rate * x, 1000)

\* torch.nn.functional.linear(x, w) = x @ w^T for a 2-dim x of shape
\* (batch, n) and w of shape (out, n).
LinearOk(x, w) == x.shape # Rank0 /\ Cols(x) = Cols(w)

RECURSIVE Dot(_, _, _, _, _)
Dot(x, r, w, o, n) ==
    IF n = 0 THEN 0 ELSE Dot(x, r, w, o, n - 1) + Elem(x, r, n) * Elem(w, o, n)

----------------------------------------------------------------------------
\* The step functions of norse.torch.functional.lif (section 4 of the
\* specification), element by element.  Each returns [ok, out, state]; ok
\* is FALSE when an operand pair does not broadcast or a matrix product's
\* inner dimensions disagree, which torch reports by raising.

\* threshold: the heaviside step of the forward pass.
heaviside(x) == IF x > 0 THEN 1 ELSE 0

Raised == [ok |-> FALSE]

\* Step 1, voltage update: v' = v + dt * tau_mem_inv * (v_leak - v + i).
v_decayed(v, i, p_, dt_) == v + Rate(dt_, p_.tau_mem_inv, (p_.v_leak - v) + i)

\* Step 2, current decay: i' = i + (-dt * tau_syn_inv * i).
i_decayed(i, p_, dt_) == i + Rate(-dt_, p_.tau_syn_inv, i)

\* Step 3, spike generation: z_out = threshold(v' - v_th).
z_new(v, i, p_, dt_) == heaviside(v_decayed(v, i, p_, dt_) - p_.v_th)

\* Step 4, reset: v'' = (1 - z_out) * v' + z_out * v_reset.
v_new(v, i, p_, dt_) ==
    (1 - z_new(v, i, p_, dt_)) * v_decayed(v, i, p_, dt_)
        + z_new(v, i, p_, dt_) * p_.v_reset

\* Element <<r, c>> of linear(x, w) as a broadcast result reads it.
LinearAt(x, w, r, c) ==
    Dot(x, IF Rows(x) = 1 THEN 1 ELSE r, w, IF Rows(w) = 1 THEN 1 ELSE c, Cols(w))

LinearShape(x, w) == <<Rows(x), Rows(w)>>

\* lif_step(input_tensor, state, input_weights, recurrent_weights, p, dt).
\* Step 5: i'' = i' + linear(z_in, input_weights) + linear(z_out,
\* recurrent_weights), the step's own output spikes closing the recurrence.
lif_step(input, state, in_w, rec_w, p_, dt_) ==
    IF ~Broadcastable(state.v.shape, state.i.shape) THEN Raised
    ELSE LET sh == BroadcastShape(state.v.shape, state.i.shape)
             Z(r, c) == z_new(At(state.v, r, c), At(state.i, r, c), p_, dt_)
             V(r, c) == v_new(At(state.v, r, c), At(state.i, r, c), p_, dt_)
             z == Tensor(Z, sh)
         IN  IF ~(LinearOk(input, in_w) /\ LinearOk(z, rec_w)) THEN Raised
             ELSE IF ~Broadcastable(LinearShape(input, in_w), LinearShape(z, rec_w))
             THEN Raised
             ELSE LET jsh == BroadcastShape(LinearShape(input, in_w),
                                            LinearShape(z, rec_w))
                      I(r, c) == i_decayed(At(state.i, r, c), p_, dt_)
                                    + LinearAt(input, in_w, r, c)
                                    + LinearAt(z, rec_w, r, c)
                  IN  IF ~Broadcastable(state.i.shape, jsh) THEN Raised
                      ELSE [ok |-> TRUE,
                            out |-> z,
                            state |-> [z |-> z,
                                       v |-> Tensor(V, sh),
                                       i |-> Tensor(I, BroadcastShape(state.i.shape, jsh))]]

\* lif_feed_forward_step(x, state, p, dt).  Step 5: i'' = i' + x.
lif_feed_forward_step(x, state, p_, dt_) ==
    IF ~Broadcastable(state.v.shape, state.i.shape) THEN Raised
    ELSE LET sh == BroadcastShape(state.v.shape, state.i.shape)
             Z(r, c) == z_new(At(state.v, r, c), At(state.i, r, c), p_, dt_)
             V(r, c) == v_new(At(state.v, r, c), At(state.i, r, c), p_, dt_)
             I(r, c) == i_decayed(At(state.i, r, c), p_, dt_) + At(x, r, c)
         IN  IF ~Broadcastable(state.i.shape, x.shape) THEN Raised
             ELSE [ok |-> TRUE,
                   out |-> Tensor(Z, sh),
                   state |-> [v |-> Tensor(V, sh),
                              i |-> Tensor(I, BroadcastShape(state.i.shape, x.shape))]]

----------------------------------------------------------------------------
\* What a caller constructs and passes in

\* LIFParameters with the time step the cell is built with: <<p, dt>>.
CellArgs ==
    { <<[tau_syn_inv |-> 250, tau_mem_inv |-> 500,
         v_leak |-> 0, v_th |-> 4, v_reset |-> 0], 1>>,
      <<[tau_syn_inv |-> 250, tau_mem_inv |-> 500,
         v_leak |-> 1, v_th |-> 4, v_reset |-> -2], 1>>,
      <<[tau_syn_inv |-> 500, tau_mem_inv |-> 250,
         v_leak |-> 5, v_th |-> 4, v_reset |-> 6], 2>> }

\* Matrices whose first row holds a and whose other rows hold b.
RowMatrix(rows, cols, a, b) ==
    LET F(r, c) == IF r = 1 THEN a ELSE b IN Tensor(F, <<rows, cols>>)

\* <<a, b, w>>: input weights a in the first row and b in the others,
\* recurrent weights w throughout.
WeightSeeds == { <<8, 8, 8>>, <<8, 0, -8>>, <<0, 8, 8>>, <<0, 0, -8>> }

\* Tensors of one shape: constant ones, and ones that differ from the
\* constant in the first element only.
Pattern(shape, a, b) ==
    LET F(r, c) == IF r = 1 /\ c = 1 THEN a ELSE b IN Tensor(F, shape)

Patterns(shape, vals) == { Pattern(shape, ab[1], ab[2]) : ab \in vals \X vals }

Shapes == (1..MaxDim) \X (1..MaxDim)

RECURSIVE SeqsOf(_, _)
\* The sequences over S of length exactly n.
SeqsOf(S, n) ==
    IF n = 0 THEN {<<>>}
    ELSE { Append(q, x) : q \in SeqsOf(S, n - 1), x \in S }

\* One time slice of a spike input and of a current input.
SpikeSlices(shape) == Patterns(shape, {0, 1})
CurrentSlices(shape) ==
    { Full(shape, 0), Full(shape, 8), Pattern(shape, -8, 8) }

\* <<z, v, i>> of the states a caller passes, besides the resting one.
StateSeeds == { <<1, 6, 0>>, <<0, 3, -8>> }

----------------------------------------------------------------------------
\* The program state

VARIABLES
    kind,               \* class of the constructed layer
    input_size,         \* LIFCell.input_size
    hidden_size,        \* LIFCell.hidden_size
    input_weights,      \* LIFCell.input_weights
    recurrent_weights,  \* LIFCell.recurrent_weights
    p,                  \* cell.p
    dt,                 \* cell.dt
    built,              \* the cell's fields as the constructor left them
    pc,                 \* "idle", "loop" (inside a layer's for), "done", "failed"
    op,                 \* the forward in progress: "layer" or "cell"
    heap,               \* the State objects alive, by reference
    arg,                \* the state argument of the call: a reference or None
    arg0,               \* <<the caller's State as it was at the call>>, <<>> for None
    inputs,             \* input_tensor.unbind(0)
    t,                  \* slices the for loop has consumed
    outputs,            \* the list outputs
    state,              \* the local state: a reference or None
    ret,                \* <<>> or <<returned outputs, returned state reference>>
    calls               \* the cell invocations of the call in progress, in order

cellVars == <<kind, input_size, hidden_size, input_weights, recurrent_weights,
              p, dt, built>>
callVars == <<pc, op, heap, arg, arg0, inputs, t, outputs, state, ret, calls>>
vars == <<cellVars, callVars>>

\* A new object on the heap; its reference is the new length.
Alloc(h, obj) == Append(h, obj)

\* Mutant: the voltage of the new State is returned in place of the spikes.
Returned_voltage(r, h1, given, made) ==
    IF r.ok
    THEN [ok |-> TRUE, out |-> r.state.v, state |-> Len(h1) + 1,
          heap |-> Alloc(h1, r.state), made |-> made, given |-> given,
          handed |-> h1[given]]
    ELSE [ok |-> FALSE, heap |-> h1, made |-> made, given |-> given,
          handed |-> h1[given]]

\* What a cell's forward hands back to its caller: on success the spikes,
\* the reference of the returned State (a new object) and the heap holding
\* it; in every case whether the State handed to the step function was
\* synthesized (made), its reference (given) and its value (handed).
Returned(r, h1, given, made) ==
    IF r.ok
    THEN [ok |-> TRUE, out |-> r.out, state |-> Len(h1) + 1,
          heap |-> Alloc(h1, r.state), made |-> made, given |-> given,
          handed |-> h1[given]]
    ELSE [ok |-> FALSE, heap |-> h1, made |-> made, given |-> given,
          handed |-> h1[given]]

\* Mutant: the default State is sized by the input's neuron axis.
LIFCell_default_wrong_axis(input) ==
    [z |-> zeros(Cols(input), hidden_size),
     v |-> Scalar(p.v_leak),
     i |-> zeros(Cols(input), hidden_size)]

\* Mutant: the default voltage is zero, not the leak potential.
LIFCell_default_zero_v(input) ==
    [z |-> zeros(Rows(input), hidden_size),
     v |-> Scalar(0),
     i |-> zeros(Rows(input), hidden_size)]

\* The default State of LIFCell.forward for an input of the given batch size.
LIFCell_default(input) ==
    [z |-> zeros(Rows(input), hidden_size),
     v |-> Scalar(p.v_leak),
     i |-> zeros(Rows(input), hidden_size)]

\* Mutant: the step runs with the reset voltage of another parameter set
\* in place of self.p's.
LIFCell_forward_other_p(input, sref, h) ==
    LET h1 == IF sref = None THEN Alloc(h, LIFCell_default(input)) ELSE h
        s == IF sref = None THEN Len(h1) ELSE sref
    IN  Returned(lif_step(input, h1[s], input_weights, recurrent_weights,
                          [p EXCEPT !.v_reset = p.v_reset + 1], dt),
                 h1, s, sref = None)

\* Mutant: the new State is written into the object that was passed in.
LIFCell_forward_in_place(input, sref, h) ==
    LET h1 == IF sref = None THEN Alloc(h, LIFCell_default(input)) ELSE h
        s == IF sref = None THEN Len(h1) ELSE sref
        r == lif_step(input, h1[s], input_weights, recurrent_weights, p, dt)
    IN  IF r.ok
        THEN [ok |-> TRUE, out |-> r.out, state |-> s,
              heap |-> [h1 EXCEPT ![s] = r.state], made |-> sref = None,
              given |-> s, handed |-> h1[s]]
        ELSE Returned(r, h1, s, sref = None)

\* LIFCell.forward(input_tensor, state) on heap h.
LIFCell_forward(input, sref, h) ==
    LET h1 == IF sref = None THEN Alloc(h, LIFCell_default(input)) ELSE h
        s == IF sref = None THEN Len(h1) ELSE sref
    IN  Returned(lif_step(input, h1[s], input_weights, recurrent_weights, p, dt),
                 h1, s, sref = None)

\* The default State of LIFFeedForwardCell.forward for an input x.
LIFFeedForwardCell_default(x) ==
    [v |-> Scalar(p.v_leak), i |-> Full(x.shape, 0)]

\* Mutant: the step takes the input as the current it integrates.
LIFFeedForwardCell_forward_eager(x, sref, h) ==
    LET h1 == IF sref = None THEN Alloc(h, LIFFeedForwardCell_default(x)) ELSE h
        s == IF sref = None THEN Len(h1) ELSE sref
    IN  Returned(lif_feed_forward_step(x, [h1[s] EXCEPT !.i = x], p, dt),
                 h1, s, sref = None)

\* Mutant: the step runs with a threshold above self.p's.
LIFFeedForwardCell_forward_other_th(x, sref, h) ==
    LET h1 == IF sref = None THEN Alloc(h, LIFFeedForwardCell_default(x)) ELSE h
        s == IF sref = None THEN Len(h1) ELSE sref
    IN  Returned(lif_feed_forward_step(x, h1[s], [p EXCEPT !.v_th = p.v_th + 1], dt),
                 h1, s, sref = None)

\* Mutant: the default State is synthesized whether or not one was passed.
LIFFeedForwardCell_forward_fresh(x, sref, h) ==
    LET h1 == Alloc(h, LIFFeedForwardCell_default(x))
    IN  Returned(lif_feed_forward_step(x, h1[Len(h1)], p, dt), h1, Len(h1), TRUE)

\* LIFFeedForwardCell.forward(x, state) on heap h.
LIFFeedForwardCell_forward(x, sref, h) ==
    LET h1 == IF sref = None THEN Alloc(h, LIFFeedForwardCell_default(x)) ELSE h
        s == IF sref = None THEN Len(h1) ELSE sref
    IN  Returned(lif_feed_forward_step(x, h1[s], p, dt), h1, s, sref = None)

\* self.cell(input_step, state) of the constructed layer.
cell(input, sref, h) ==
    IF kind = "LIFLayer" THEN LIFCell_forward(input, sref, h)
    ELSE LIFFeedForwardCell_forward(input, sref, h)

\* The record of one cell invocation: its arguments and what it returned
\* (out is <<the spikes>>, or <<>> when the cell raised).
CallRecord(input, sref, r) ==
    [input |-> input, state_in |-> sref, made |-> r.made, given |-> r.given,
     handed |-> r.handed, ok |-> r.ok,
     out |-> IF r.ok THEN <<r.out>> ELSE <<>>,
     state_out |-> IF r.ok THEN r.state ELSE None]

\* The pieces of a layer's loop body.
\* Mutant: every iteration takes the first slice.
input_step_first(inputs_, k) == inputs_[1]

\* for _, input_step in enumerate(inputs): the slice of iteration k = 0, 1, ...
input_step(inputs_, k) == inputs_[k + 1]

\* Mutant: every iteration passes the caller's argument again.
cell_state_initial(state_, arg_) == arg_

\* self.cell(input_step, state): the state argument is the local state,
\* which starts as the caller's argument.
cell_state(state_, arg_) == state_

\* Mutant: the newest output goes to the front of the list.
collect_front(outputs_, out) == <<out>> \o outputs_

\* Mutant: the list is rebound to the newest output.
collect_last(outputs_, out) == <<out>>

\* outputs += [out]
collect(outputs_, out) == Append(outputs_, out)

\* torch.stack(outputs): raises on an empty list and on slices of unequal
\* shape; otherwise the slices along a new leading axis.
StackOk(outs) ==
    /\ outs # <<>>
    /\ \A k \in 1..Len(outs) : outs[k].shape = outs[1].shape

stack(outs) == outs

RECURSIVE Layer_scan(_, _, _, _, _, _)
\* The for loop of a layer's forward from iteration k on, with the local
\* state sref, the heap h and the outputs outs, and the return after it.
Layer_scan(xs, k, a, sref, h, outs) ==
    IF k = Len(xs)
    THEN IF StackOk(outs)
         THEN [ok |-> TRUE, outputs |-> stack(outs), state |-> sref, heap |-> h]
         ELSE [ok |-> FALSE, outputs |-> <<>>, state |-> None, heap |-> h]
    ELSE LET r == cell(input_step(xs, k), cell_state(sref, a), h)
         IN  IF r.ok
             THEN Layer_scan(xs, k + 1, a, r.state, r.heap, collect(outs, r.out))
             ELSE [ok |-> FALSE, outputs |-> <<>>, state |-> None, heap |-> r.heap]

\* layer.forward(input_tensor, state) as a function of its arguments.
Layer_result(xs, sref, h) == Layer_scan(xs, 0, sref, sref, h, <<>>)

----------------------------------------------------------------------------
\* Construction

\* LIFLayer(input_size, hidden_size, p, dt): LIFCell.__init__
LIFLayer_init ==
    /\ kind = "LIFLayer"
    /\ input_size \in 1..MaxDim
    /\ hidden_size \in 1..MaxDim
    /\ \E w \in WeightSeeds :
          /\ input_weights = RowMatrix(hidden_size, input_size, w[1], w[2])
          /\ recurrent_weights = Full(<<hidden_size, hidden_size>>, w[3])
    /\ \E a \in CellArgs : p = a[1] /\ dt = a[2]

\* LIFFeedForwardLayer(p, dt): LIFFeedForwardCell.__init__
LIFFeedForwardLayer_init ==
    /\ kind = "LIFFeedForwardLayer"
    /\ input_size = None
    /\ hidden_size = None
    /\ input_weights = <<>>
    /\ recurrent_weights = <<>>
    /\ \E a \in CellArgs : p = a[1] /\ dt = a[2]

Fields ==
    [input_weights |-> input_weights, recurrent_weights |-> recurrent_weights,
     p |-> p, dt |-> dt]

Idle ==
    /\ pc = "idle"
    /\ op = "none"
    /\ heap = <<>>
    /\ arg = None
    /\ arg0 = <<>>
    /\ inputs = <<>>
    /\ t = 0
    /\ outputs = <<>>
    /\ state = None
    /\ ret = <<>>
    /\ calls = <<>>

Init ==
    /\ LIFLayer_init \/ LIFFeedForwardLayer_init
    /\ built = Fields
    /\ Idle

----------------------------------------------------------------------------
\* Calls

Slices(shape) ==
    IF kind = "LIFLayer" THEN SpikeSlices(shape) ELSE CurrentSlices(shape)

\* A State aggregate of the constructed cell's variant with constant fields.
StateOf(shape, z, v, i) ==
    IF kind = "LIFLayer"
    THEN [z |-> Full(shape, z), v |-> Full(shape, v), i |-> Full(shape, i)]
    ELSE [v |-> Full(shape, v), i |-> Full(shape, i)]

\* The States of one shape a caller passes: the resting state
\* (v = v_leak, no current, no spike) and the seeded ones.
States(shape) ==
    {StateOf(shape, 0, p.v_leak, 0)}
        \cup { StateOf(shape, s[1], s[2], s[3]) : s \in StateSeeds }

\* Shapes that fit the cell: the input's neuron dimension is input_size and
\* the State is (batch, hidden_size); the feed-forward cell takes any input
\* shape with a State of that shape.
InputShapes ==
    IF kind = "LIFLayer" THEN { <<b, input_size>> : b \in 1..MaxDim } ELSE Shapes

StateShape(xshape) ==
    IF kind = "LIFLayer" THEN <<xshape[1], hidden_size>> ELSE xshape

\* The caller's arguments <<input_tensor.unbind(0), state>>; state is <<>>
\* for None and <<s>> for a State object s.
FittingCalls ==
    UNION { SeqsOf(Slices(sh), n) \X ({<<>>} \cup { <<s>> : s \in States(StateShape(sh)) })
            : sh \in InputShapes, n \in 0..MaxT }

\* Arguments whose shapes do not fit: any input shape with any State shape
\* (or None), on inputs that repeat one constant slice.
MisfitCalls ==
    UNION { { [k \in 1..n |-> x] : x \in { y \in Slices(xsh) : y = Full(xsh, y.d[1]) } }
              \X { st \in {<<>>} \cup { <<s>> : s \in States(ssh) } :
                     ~(xsh \in InputShapes /\ (st = <<>> \/ ssh = StateShape(xsh))) }
            : xsh \in Shapes, ssh \in Shapes, n \in 1..MaxT }

\* Arguments on which a later step raises: a feed-forward State whose v and
\* i differ in batch size takes the first slice, leaving an i of the input's
\* batch size that the v no longer broadcasts with.
RaggedCalls ==
    IF kind = "LIFLayer" THEN {}
    ELSE { <<[k \in 1..n |-> Full(<<MaxDim + 1, 1>>, x)],
             <<[v |-> Full(<<MaxDim, 1>>, p.v_leak), i |-> Full(<<1, 1>>, 0)]>>>>
           : n \in 2..MaxT, x \in {0, 8} }

Calls == FittingCalls \cup MisfitCalls \cup RaggedCalls

\* The reference the callee receives for the caller's state argument; the
\* caller's State is the only object on the heap when the call starts.
Ref(st) == IF st = <<>> THEN None ELSE 1

PassState(st) ==
    /\ arg' = Ref(st)
    /\ arg0' = st

\* Mutant: a forward leaves a changed time step in the cell.
cell_untouched_dt == dt' = dt + 1 /\ UNCHANGED <<kind, input_size, hidden_size,
                                                input_weights, recurrent_weights,
                                                p, built>>

\* No forward assigns a field of the cell.
cell_untouched == UNCHANGED cellVars

\* layer.forward(input_tensor, state) up to the for loop: unbind the input
\* and start with no outputs.
Layer_forward ==
    /\ pc = "idle"
    /\ \E c \in Calls :
          /\ inputs' = c[1]
          /\ PassState(c[2])
          /\ heap' = c[2]
          /\ state' = Ref(c[2])
    /\ pc' = "loop"
    /\ op' = "layer"
    /\ t' = 0
    /\ outputs' = <<>>
    /\ ret' = <<>>
    /\ calls' = <<>>
    /\ UNCHANGED cellVars

\* Mutant: an exception in the cell ends the loop and the forward returns
\* what it has collected.
Layer_step_partial ==
    /\ pc = "loop"
    /\ t < Len(inputs)
    /\ LET x == input_step(inputs, t)
           sref == cell_state(state, arg)
           r == cell(x, sref, heap)
       IN  /\ calls' = Append(calls, CallRecord(x, sref, r))
           /\ heap' = r.heap
           /\ t' = t + 1
           /\ IF r.ok
              THEN /\ outputs' = collect(outputs, r.out)
                   /\ state' = r.state
                   /\ pc' = "loop"
                   /\ UNCHANGED ret
              ELSE /\ pc' = "done"
                   /\ ret' = <<stack(outputs), state>>
                   /\ UNCHANGED <<outputs, state>>
    /\ UNCHANGED <<op, arg, arg0, inputs>>
    /\ cell_untouched

\* One iteration of the for loop: out, state = self.cell(input_step, state);
\* outputs += [out].  An exception in the cell ends the forward.
Layer_step ==
    /\ pc = "loop"
    /\ t < Len(inputs)
    /\ LET x == input_step(inputs, t)
           sref == cell_state(state, arg)
           r == cell(x, sref, heap)
       IN  /\ calls' = Append(calls, CallRecord(x, sref, r))
           /\ heap' = r.heap
           /\ t' = t + 1
           /\ IF r.ok
              THEN /\ outputs' = collect(outputs, r.out)
                   /\ state' = r.state
                   /\ pc' = "loop"
              ELSE /\ pc' = "failed"
                   /\ UNCHANGED <<outputs, state>>
    /\ UNCHANGED <<op, arg, arg0, inputs, ret>>
    /\ cell_untouched

\* After the loop: return torch.stack(outputs), state.
Layer_return ==
    /\ pc = "loop"
    /\ t = Len(inputs)
    /\ IF StackOk(outputs)
       THEN /\ ret' = <<stack(outputs), state>>
            /\ pc' = "done"
       ELSE /\ pc' = "failed"
            /\ UNCHANGED ret
    /\ UNCHANGED <<op, heap, arg, arg0, inputs, t, outputs, state, calls>>
    /\ UNCHANGED cellVars

\* layer.cell(input, state): one call of the cell on its own.
Cell_forward ==
    /\ pc = "idle"
    /\ \E c \in Calls :
          /\ Len(c[1]) = 1
          /\ inputs' = c[1]
          /\ PassState(c[2])
          /\ LET r == cell(c[1][1], Ref(c[2]), c[2])
             IN  /\ calls' = <<CallRecord(c[1][1], Ref(c[2]), r)>>
                 /\ heap' = r.heap
                 /\ IF r.ok
                    THEN /\ ret' = <<r.out, r.state>>
                         /\ pc' = "done"
                    ELSE /\ ret' = <<>>
                         /\ pc' = "failed"
    /\ op' = "cell"
    /\ t' = 0
    /\ outputs' = <<>>
    /\ state' = None
    /\ cell_untouched

\* The caller takes the result (or the exception) and is free to call again.
Caller_continue ==
    /\ pc \in {"done", "failed"}
    /\ pc' = "idle"
    /\ op' = "none"
    /\ heap' = <<>>
    /\ arg' = None
    /\ arg0' = <<>>
    /\ inputs' = <<>>
    /\ t' = 0
    /\ outputs' = <<>>
    /\ state' = None
    /\ ret' = <<>>
    /\ calls' = <<>>
    /\ UNCHANGED cellVars

Next ==
    \/ Layer_forward
    \/ Layer_step
    \/ Layer_return
    \/ Cell_forward
    \/ Caller_continue

Spec == Init /\ [][Next]_vars

----------------------------------------------------------------------------
\* Properties

\* The arguments of the call in progress are shape-compatible (sections 3
\* and 4.1 of the specification): every slice has a shape the cell takes,
\* and a State that is passed has the (batch, neuron) shape of the slices.
StateFits(s, shape) ==
    /\ s.v.shape = StateShape(shape)
    /\ s.i.shape = StateShape(shape)
    /\ kind = "LIFLayer" => s.z.shape = StateShape(shape)

FitArgs ==
    \A k \in 1..Len(inputs) :
        /\ inputs[k].shape \in InputShapes
        /\ arg0 # <<>> => StateFits(arg0[1], inputs[k].shape)

AllEqual(a, x) == \A q \in 1..Len(a.d) : a.d[q] = x

\* C1: in a layer's forward the cell is invoked once per slice, on slice
\* 0, 1, 2, ... in this order, and the state it is passed is the caller's
\* argument at step 0 and the State the previous invocation returned at
\* every later step; a forward that returns has invoked it on every slice.
C1_Threaded ==
    op = "layer" =>
        /\ Len(calls) = t
        /\ t <= Len(inputs)
        /\ \A k \in 1..Len(calls) :
              /\ calls[k].input = inputs[k]
              /\ calls[k].state_in = IF k = 1 THEN arg ELSE calls[k - 1].state_out
              /\ k > 1 => calls[k - 1].ok /\ calls[k].state_in # None
        /\ pc = "done" => Len(calls) = Len(inputs)

C1_Witness ==
    /\ op = "layer"
    /\ pc = "done"
    /\ arg = None
    /\ Len(calls) = 3
    /\ calls[2].state_in = calls[1].state_out
    /\ calls[3].state_in = calls[2].state_out
    /\ calls[3].input # calls[2].input

\* C2: a layer's forward on T >= 1 shape-compatible slices returns; the
\* returned outputs hold T slices, slice k being what the cell returned at
\* step k; the returned state is the one the cell returned at the last
\* step; and each output slice of a LIFLayer has shape (batch, hidden_size).
C2_Returns ==
    (op = "layer" /\ pc # "loop" /\ FitArgs /\ Len(inputs) >= 1) =>
        /\ pc = "done"
        /\ Len(ret[1]) = Len(inputs)
        /\ Len(calls) = Len(inputs)
        /\ \A k \in 1..Len(inputs) :
              /\ calls[k].input = inputs[k]
              /\ calls[k].out = <<ret[1][k]>>
              /\ kind = "LIFLayer" =>
                    ret[1][k].shape = <<Rows(inputs[k]), hidden_size>>
        /\ ret[2] = calls[Len(inputs)].state_out

C2_Witness ==
    /\ op = "layer"
    /\ pc = "done"
    /\ FitArgs
    /\ kind = "LIFLayer"
    /\ Len(inputs) = 3
    /\ ret[1][1] # ret[1][2]
    /\ ret[1][2] # ret[1][3]

\* C3: a State that is passed in is never changed: the caller's State
\* holds the values it had at the call, a State that is passed is the one
\* handed to the step function (no default takes its place), every State
\* handed to the step function keeps the value it was handed with, and the
\* State a cell returns is a new object.
C3_NotMutated ==
    /\ arg # None => heap[arg] = arg0[1]
    /\ \A k \in 1..Len(calls) :
          /\ calls[k].state_in # None =>
                /\ ~calls[k].made
                /\ calls[k].given = calls[k].state_in
          /\ heap[calls[k].given] = calls[k].handed
          /\ calls[k].ok =>
                /\ calls[k].state_out # arg
                /\ \A j \in 1..k : calls[k].state_out # calls[j].given
    /\ (pc = "done" /\ arg # None) => ret[2] # arg

C3_Witness ==
    /\ op = "layer"
    /\ pc = "done"
    /\ arg # None
    /\ Len(calls) = 2
    /\ heap[ret[2]].v # arg0[1].v
    /\ heap[ret[2]].i # arg0[1].i

\* C4: a State synthesized for state=None has v = v_leak, i = 0 (and
\* z = 0), sized to the input's batch, and the call returns what it returns
\* when that State, with every element written out, is passed explicitly.
DefaultShape(x) ==
    IF kind = "LIFLayer" THEN <<Rows(x), hidden_size>> ELSE x.shape

C4_Default ==
    \A k \in 1..Len(calls) :
        calls[k].made =>
            LET c == calls[k]
                sh == DefaultShape(c.input)
                e == cell(c.input, 1, <<StateOf(sh, 0, p.v_leak, 0)>>)
            IN  /\ c.state_in = None
                /\ AllEqual(c.handed.v, p.v_leak)
                /\ c.handed.i = Full(sh, 0)
                /\ kind = "LIFLayer" => c.handed.z = Full(sh, 0)
                /\ e.ok = c.ok
                /\ c.ok => /\ c.out = <<e.out>>
                           /\ heap[c.state_out] = e.heap[e.state]

C4_Witness ==
    /\ op = "cell"
    /\ pc = "done"
    /\ calls[1].made
    /\ p.v_leak >= p.v_th
    /\ Rows(calls[1].input) = 2
    /\ ~AllEqual(ret[1], 0)

\* C5: a layer's forward on an empty input sequence returns an empty
\* output sequence and the state argument, without invoking the cell.
C5_EmptyReturns ==
    (op = "layer" /\ pc # "loop" /\ inputs = <<>>) =>
        /\ pc = "done"
        /\ calls = <<>>
        /\ ret = <<<<>>, arg>>

\* C6: a forward leaves the cell's fields as the constructor set them, and
\* what every cell invocation returns is the step function of its input,
\* the State handed to it and those fields.
StepWith(f, input, s) ==
    IF kind = "LIFLayer"
    THEN lif_step(input, s, f.input_weights, f.recurrent_weights, f.p, f.dt)
    ELSE lif_feed_forward_step(input, s, f.p, f.dt)

C6_FieldsReadOnly ==
    /\ Fields = built
    /\ \A k \in 1..Len(calls) :
          LET c == calls[k]
              e == StepWith(built, c.input, c.handed)
          IN  /\ e.ok = c.ok
              /\ c.ok => /\ c.out = <<e.out>>
                         /\ heap[c.state_out] = e.state

C6_Witness ==
    /\ op = "layer"
    /\ pc = "done"
    /\ kind = "LIFLayer"
    /\ Len(calls) = 3
    /\ ~AllEqual(ret[1][3], 0)
    /\ ~AllEqual(heap[ret[2]].i, 0)
    /\ Fields = built

\* C7: every element of the spikes a LIFCell returns is 0 or 1, and so is
\* every element of every output slice of a LIFLayer and of z in every
\* State a step returned.
Binary(a) == \A q \in 1..Len(a.d) : a.d[q] \in {0, 1}

C7_Binary ==
    kind = "LIFLayer" =>
        /\ \A k \in 1..Len(calls) :
              calls[k].ok => /\ Binary(calls[k].out[1])
                             /\ Binary(heap[calls[k].state_out].z)
        /\ \A k \in 1..Len(outputs) : Binary(outputs[k])
        /\ (op = "layer" /\ pc = "done") => \A k \in 1..Len(ret[1]) : Binary(ret[1][k])
        /\ (op = "cell" /\ pc = "done") => Binary(ret[1])

C7_Witness ==
    /\ kind = "LIFLayer"
    /\ op = "layer"
    /\ pc = "done"
    /\ Len(ret[1]) = 3
    /\ \E k \in 1..3 : ~AllEqual(ret[1][k], 0) /\ ~AllEqual(ret[1][k], 1)
    /\ AllEqual(ret[1][1], 0)

\* C8: in every step of either cell, an element that spikes has the new
\* voltage v_reset, and an element that does not has the new voltage
\* v + dt * tau_mem_inv * (v_leak - v + i).
C8_Reset ==
    \A k \in 1..Len(calls) :
        calls[k].ok =>
            LET c == calls[k]
                z == c.out[1]
                n == heap[c.state_out]
            IN  /\ n.v.shape = z.shape
                /\ \A r \in 1..Rows(z), j \in 1..Cols(z) :
                      LET v == At(c.handed.v, r, j)
                          i == At(c.handed.i, r, j)
                      IN  IF Elem(z, r, j) = 1
                          THEN Elem(n.v, r, j) = p.v_reset
                          ELSE /\ Elem(z, r, j) = 0
                               /\ Elem(n.v, r, j) =
                                     v + Rate(dt, p.tau_mem_inv, p.v_leak - v + i)

C8_Witness ==
    /\ pc = "done"
    /\ p.v_reset # p.v_leak
    /\ \E k \in 1..Len(calls) :
          LET z == calls[k].out[1]
              n == heap[calls[k].state_out]
          IN  /\ ~AllEqual(z, 0)
              /\ ~AllEqual(z, 1)
              /\ \E q \in 1..Len(z.d) :
                    z.d[q] = 0 /\ n.v.d[q] # At(calls[k].handed.v, 1, 1)

\* C9: with v_leak < v_th, a step from v = v_leak, i = 0 on an all-zero
\* input emits no spike and returns v = v_leak, i = 0: a forward from
\* state=None (or from that State) over all-zero slices emits only zeros
\* and is at v = v_leak, i = 0 after every step, whatever the weights.
Resting(s) == AllEqual(s.v, p.v_leak) /\ AllEqual(s.i, 0)

C9_SteadyState ==
    ( /\ p.v_leak < p.v_th
      /\ arg0 # <<>> => Resting(arg0[1])
      /\ \A k \in 1..Len(inputs) : AllEqual(inputs[k], 0) ) =>
        \A k \in 1..Len(calls) :
            /\ Resting(calls[k].handed)
            /\ calls[k].ok => /\ AllEqual(calls[k].out[1], 0)
                              /\ Resting(heap[calls[k].state_out])

C9_Witness ==
    /\ kind = "LIFLayer"
    /\ op = "layer"
    /\ pc = "done"
    /\ arg = None
    /\ p.v_leak < p.v_th
    /\ p.v_leak # 0
    /\ Len(inputs) = 3
    /\ \A k \in 1..3 : AllEqual(inputs[k], 0)
    /\ ~AllEqual(input_weights, 0)
    /\ Resting(heap[ret[2]])

\* C10: a forward from state=None over three slices of which the middle
\* one alone carries input, and for which the cell steps taken in the order
\* 0, 1, 2 spike at step 2 and no earlier, ends in the State those three
\* steps end in; the three steps taken in an order that puts the middle
\* slice last end in another State.  (An order that only exchanges the two
\* empty slices ends in the same State.)
RECURSIVE Apply(_, _, _, _)
\* The State the cell steps on xs[order[k]], xs[order[k + 1]], ... end in,
\* started from <<reference, heap>> sh; <<>> if a step raises.
Apply(xs, order, k, sh) ==
    IF k > Len(order) THEN <<sh[2][sh[1]]>>
    ELSE LET r == cell(xs[order[k]], sh[1], sh[2])
         IN  IF r.ok THEN Apply(xs, order, k + 1, <<r.state, r.heap>>) ELSE <<>>

FromNone(xs, order) == Apply(xs, order, 1, <<None, <<>>>>)

Orders == { f \in [1..3 -> 1..3] : \A a, b \in 1..3 : f[a] = f[b] => a = b }

Spikes(st) == st # <<>> /\ ~AllEqual(st[1].z, 0)
Silent(st) == st # <<>> /\ AllEqual(st[1].z, 0)

\* inputs[2] alone carries input and triggers the spike of step 2.
MiddleTriggers ==
    /\ kind = "LIFLayer"
    /\ op = "layer"
    /\ pc = "done"
    /\ arg = None
    /\ Len(inputs) = 3
    /\ AllEqual(inputs[1], 0)
    /\ ~AllEqual(inputs[2], 0)
    /\ AllEqual(inputs[3], 0)
    /\ Silent(FromNone(inputs, <<1>>))
    /\ Silent(FromNone(inputs, <<1, 2>>))
    /\ Spikes(FromNone(inputs, <<1, 2, 3>>))

C10_AnyScramble ==
    MiddleTriggers =>
        /\ <<heap[ret[2]]>> = FromNone(inputs, <<1, 2, 3>>)
        /\ \A f \in Orders :
              f # <<1, 2, 3>> => FromNone(inputs, f) # <<heap[ret[2]]>>

C10_MiddleLast ==
    MiddleTriggers =>
        /\ <<heap[ret[2]]>> = FromNone(inputs, <<1, 2, 3>>)
        /\ \A f \in Orders :
              f[3] = 2 => FromNone(inputs, f) # <<heap[ret[2]]>>

C10_Witness ==
    /\ MiddleTriggers
    /\ recurrent_weights.d[1] # 0
    /\ heap[ret[2]].i # heap[calls[3].given].i
    /\ FromNone(inputs, <<3, 1, 2>>) # <<>>

\* C11: in a call with fitting arguments, the State a cell hands to its step
\* function, the default it synthesizes for state=None included, has every
\* field of the (batch, neuron) shape of the call: (batch, hidden_size) for
\* LIFCell and the input's shape for LIFFeedForwardCell.
C11_StateShapes ==
    FitArgs =>
        \A k \in 1..Len(calls) :
            StateFits(calls[k].handed, calls[k].input.shape)

\* The arguments of one cell invocation do not fit: the input's neuron
\* dimension is not the one the weights take, or a State that was passed in
\* has a field of another shape than the input calls for.
Mismatched(c) ==
    \/ c.input.shape \notin InputShapes
    \/ ~c.made /\ ~StateFits(c.handed, c.input.shape)

\* C12: a cell invocation with mismatched arguments raises; none returns.
C12_FailFast ==
    \A k \in 1..Len(calls) : Mismatched(calls[k]) => ~calls[k].ok

\* C13: when a cell invocation of a layer's forward raises, it is the last
\* one made, the forward has failed, and nothing is returned: neither the
\* outputs collected so far nor a State.
C13_NoPartial ==
    op = "layer" =>
        \A k \in 1..Len(calls) :
            ~calls[k].ok =>
                /\ k = Len(calls)
                /\ pc = "failed"
                /\ ret = <<>>

\* The cell raised after an earlier step had produced an output.
C13_Witness ==
    /\ op = "layer"
    /\ pc = "failed"
    /\ Len(calls) >= 2
    /\ ~calls[Len(calls)].ok
    /\ Len(outputs) = Len(calls) - 1
    /\ ret = <<>>

\* C14: in a layer's forward the cell synthesizes the default State in the
\* first iteration of a call with state=None and in no other iteration:
\* every later iteration passes the cell a State object, and a call with a
\* State argument synthesizes none.
C14_DefaultOnce ==
    op = "layer" =>
        \A k \in 1..Len(calls) :
            /\ calls[k].made <=> (k = 1 /\ arg = None)
            /\ k > 1 => calls[k].state_in # None

\* A forward with state=None has run two or more iterations.
C14_Witness ==
    /\ op = "layer"
    /\ arg = None
    /\ Len(calls) >= 2
    /\ calls[1].made
    /\ ~calls[2].made

\* C15: when a layer's forward on xs from the state s returns, then for
\* every split point k with 1 <= k < T the forward on xs[0..k-1] from s
\* followed by the forward on xs[k..T-1] from the State the first returned
\* both return, their outputs concatenated are the outputs of the one
\* forward, and the second ends in an equal State.
C15_Composable ==
    (op = "layer" /\ pc = "done") =>
        \A k \in 1..(Len(inputs) - 1) :
            LET a == Layer_result(SubSeq(inputs, 1, k), arg, arg0)
            IN  /\ a.ok
                /\ LET b == Layer_result(SubSeq(inputs, k + 1, Len(inputs)),
                                         a.state, a.heap)
                   IN  /\ b.ok
                       /\ a.outputs \o b.outputs = ret[1]
                       /\ b.heap[b.state] = heap[ret[2]]

\* A returned forward over three slices whose outputs are not all the same
\* and whose State changed in the last step.
C15_Witness ==
    /\ op = "layer"
    /\ pc = "done"
    /\ Len(inputs) = 3
    /\ arg # None
    /\ ret[1][1] # ret[1][3]
    /\ heap[ret[2]] # heap[calls[3].given]
    /\ Layer_result(SubSeq(inputs, 1, 2), arg, arg0).ok

\* C16: with v_reset <= v_th, no element of the voltage of a State that a
\* step returns is above v_th, whatever State, input and weights the step
\* was given.
C16_BelowThreshold ==
    p.v_reset <= p.v_th =>
        \A k \in 1..Len(calls) :
            calls[k].ok =>
                \A q \in 1..Len(heap[calls[k].state_out].v.d) :
                    heap[calls[k].state_out].v.d[q] <= p.v_th

\* A layer's forward from a State above the threshold in which one step
\* spiked and was reset and another returned an element exactly at v_th.
C16_Witness ==
    /\ p.v_reset <= p.v_th
    /\ op = "layer"
    /\ arg # None
    /\ \E q \in 1..Len(arg0[1].v.d) : arg0[1].v.d[q] > p.v_th
    /\ \E k \in 1..Len(calls) :
          /\ calls[k].ok
          /\ ~AllEqual(calls[k].out[1], 0)
    /\ \E k \in 1..Len(calls) :
          /\ calls[k].ok
          /\ \E q \in 1..Len(heap[calls[k].state_out].v.d) :
                /\ heap[calls[k].state_out].v.d[q] = p.v_th
                /\ calls[k].out[1].d[q] = 0

\* The first n elements of a sequence (all of them if it has fewer).
Upto(s, n) == [m \in 1..(IF Len(s) < n THEN Len(s) ELSE n) |-> s[m]]

\* The cell invocation c made again on the slice x in place of its own.
Again(c, x) ==
    IF c.made THEN cell(x, None, <<>>) ELSE cell(x, 1, <<c.handed>>)

\* C17: the spikes and the voltage a step produces do not depend on the
\* step's input slice: (a) the latest cell invocation made again on any slice
\* of the same shape returns the same spikes and the same voltage; (b) a
\* layer's forward on a sequence that differs from a returned one at index
\* j only returns the same output slices at indices 0..j; (c) with
\* v_leak < v_th the first output slice of a forward with state=None is
\* all zeros.
C17_Latency ==
    /\ (calls # <<>> /\ calls[Len(calls)].ok) =>
          LET c == calls[Len(calls)]
          IN  \A x \in Slices(c.input.shape) :
                  LET r == Again(c, x)
                  IN  /\ r.ok
                      /\ r.out = c.out[1]
                      /\ r.heap[r.state].v = heap[c.state_out].v
    /\ (op = "layer" /\ pc = "done") =>
          \A j \in 1..Len(inputs) :
              \A x \in Slices(inputs[j].shape) \ {inputs[j]} :
                  Upto(Layer_result([inputs EXCEPT ![j] = x], arg, arg0).outputs, j)
                      = Upto(ret[1], j)
    /\ (op = "layer" /\ arg = None /\ p.v_leak < p.v_th /\ Len(outputs) >= 1) =>
          AllEqual(outputs[1], 0)

\* A returned forward from state=None whose slice at index 1 decides the
\* output at index 2: another slice there gives the same outputs at indices
\* 0 and 1 and another output at index 2.
C17_Witness ==
    /\ op = "layer"
    /\ pc = "done"
    /\ arg = None
    /\ p.v_leak < p.v_th
    /\ Len(inputs) = 3
    /\ \E x \in Slices(inputs[2].shape) :
          LET alt == Layer_result([inputs EXCEPT ![2] = x], arg, arg0)
          IN  /\ alt.ok
              /\ alt.outputs[2] = ret[1][2]
              /\ alt.outputs[3] # ret[1][3]

====
